---- MODULE Spec2Model ----
(***************************************************************************)
(* Daily simulation core of the fulfilment platform: the backfill loop     *)
(* (data_simulation/backfill.py) driving the order generator, the shipment *)
(* pipeline, the inventory ledger, the delivery generator and the          *)
(* experiment-assignment generator over a calendar of simulated days.      *)
(*                                                                         *)
(* Dates are day numbers (BACKFILL_START_DATE is day 1).  Quantities are   *)
(* scaled down (roughly one unit per 50 real units) so that the ordering   *)
(* of the real ranges is kept: the initial stock can lie at or below the   *)
(* largest reorder point, and the smallest reorder quantity does not lift  *)
(* an empty cell above the largest reorder point.                          *)
(***************************************************************************)
EXTENDS Integers, Sequences, FiniteSets, TLC

(* ---------------- bounds of the model ---------------- *)
\* last simulated day of the longest calendar (the end date as a day number)
EndDay == 4
\* largest quantity on one order item (rng.choice([1, 1, 1, 2, 2, 3]) in the code)
MaxItemQty == 1
\* INITIAL_STOCK_RANGE, scaled: rng.integers(lo, hi) draws lo .. hi-1
InitStockLo == 2
InitStockHi == 3
\* REORDER_QUANTITY_RANGE, scaled: rng.integers(lo, hi) draws lo .. hi-1
ReorderQtyLo == 1
ReorderQtyHi == 2
\* largest value of int(rng.normal(base_lead, std_dev)) that is drawn
MaxLeadDraw == 3
\* largest extra delay of a reliability miss (rng.integers(1, 5) in the code)
MaxExtraDelay == 1

(* ---------------- program constants and inputs ---------------- *)
BACKFILL_START_DATE == 1
\* the "missing" marker of an identifier column (None / NaN)
None == "None"
\* the "missing" marker of a date column (NaT): no calendar day has number 0
NaT == 0

ORDER_STATUSES == {"Delivered", "Shipped", "Processing", "Pending", "Cancelled"}

\* dim_product rows: a supplier serves P1's category, none serves P2's
ProductP1 ==
    [product_id |-> "P1", category |-> "Electronics",
     reorder_point |-> 1, safety_stock |-> 1]

ProductP2 ==
    [product_id |-> "P2", category |-> "Books",
     reorder_point |-> 1, safety_stock |-> 1]

\* a second product that a supplier serves
ProductP3 ==
    [product_id |-> "P3", category |-> "Toys",
     reorder_point |-> 1, safety_stock |-> 1]

\* dim_supplier: product_categories is the comma-separated list, already split
Suppliers ==
    << [supplier_id |-> "SUP-001", average_lead_time |-> 3,
        product_categories |-> <<"Electronics", "Toys">>],
       [supplier_id |-> "SUP-002", average_lead_time |-> 2,
        product_categories |-> <<"Grocery">>] >>

\* dim_experiments: one closed experiment and one that is still open
Experiments ==
    << [experiment_id |-> "EXP-001", start_date |-> 1, end_date |-> 1,
        target_warehouses |-> <<"WH-001">>],
       [experiment_id |-> "EXP-002", start_date |-> 2, end_date |-> NaT,
        target_warehouses |-> <<"WH-002">>] >>

\* The runs that are explored: the configuration and the dimension tables a
\* run is started with.
\* one warehouse, one product, the longest calendar
LedgerRun ==
    [warehouse_ids |-> <<"WH-001">>,
     products_df |-> <<ProductP1>>,
     suppliers_df |-> Suppliers,
     experiments_df |-> <<>>,
     end_date |-> EndDay,
     max_orders |-> 1,
     lost_cells |-> {}]

\* one warehouse, a product with a supplier and one without
SupplierGapRun ==
    [warehouse_ids |-> <<"WH-001">>,
     products_df |-> <<ProductP1, ProductP2>>,
     suppliers_df |-> Suppliers,
     experiments_df |-> <<>>,
     end_date |-> EndDay - 1,
     max_orders |-> 1,
     lost_cells |-> {}]

\* one warehouse, two products that the same supplier serves
TwoProductRun ==
    [warehouse_ids |-> <<"WH-001">>,
     products_df |-> <<ProductP1, ProductP3>>,
     suppliers_df |-> Suppliers,
     experiments_df |-> <<>>,
     end_date |-> BACKFILL_START_DATE + 1,
     max_orders |-> 1,
     lost_cells |-> {}]

\* two warehouses and the experiments, one order a day
NetworkRun ==
    [warehouse_ids |-> <<"WH-001", "WH-002">>,
     products_df |-> <<ProductP1>>,
     suppliers_df |-> Suppliers,
     experiments_df |-> Experiments,
     end_date |-> BACKFILL_START_DATE + 1,
     max_orders |-> 1,
     lost_cells |-> {}]

\* two warehouses and the experiments, up to two orders on the single day
BusyDayRun ==
    [warehouse_ids |-> <<"WH-001", "WH-002">>,
     products_df |-> <<ProductP1>>,
     suppliers_df |-> Suppliers,
     experiments_df |-> Experiments,
     end_date |-> BACKFILL_START_DATE,
     max_orders |-> 2,
     lost_cells |-> {}]

\* one warehouse, one product, a calendar one day shorter than the longest
CalendarRun ==
    [warehouse_ids |-> <<"WH-001">>,
     products_df |-> <<ProductP1>>,
     suppliers_df |-> Suppliers,
     experiments_df |-> <<>>,
     end_date |-> EndDay - 1,
     max_orders |-> 1,
     lost_cells |-> {}]

\* a run whose state comes from a checkpoint that has lost the entry of the
\* last cell (SimulationState.from_dict takes whatever inventory map it is given)
ResumedRun ==
    [warehouse_ids |-> <<"WH-001">>,
     products_df |-> <<ProductP1, ProductP3>>,
     suppliers_df |-> Suppliers,
     experiments_df |-> <<>>,
     end_date |-> BACKFILL_START_DATE + 1,
     max_orders |-> 1,
     lost_cells |-> {<<"WH-001", "P3">>}]

Runs == {LedgerRun, SupplierGapRun, TwoProductRun, NetworkRun, BusyDayRun,
         CalendarRun, ResumedRun}

\* the runs on which termination is checked
LiveRuns == {CalendarRun, TwoProductRun, NetworkRun, BusyDayRun}

(* ---------------- helpers ---------------- *)
Max(a, b) == IF a >= b THEN a ELSE b

Range(s) == {s[i] : i \in DOMAIN s}

RECURSIVE SumQty(_)
\* sum of the quantity field over a sequence of rows (groupby(...).sum())
SumQty(rows) ==
    IF rows = <<>> THEN 0 ELSE Head(rows).quantity + SumQty(Tail(rows))

RECURSIVE Digits(_)
\* decimal digits of a natural number, most significant first
Digits(n) == IF n < 10 THEN <<n>> ELSE Append(Digits(n \div 10), n % 10)

RECURSIVE ZeroPad(_, _)
\* the format spec ":05d": left-pad with zeros up to the width, never truncate
ZeroPad(ds, w) == IF Len(ds) >= w THEN ds ELSE ZeroPad(<<0>> \o ds, w)

\* f"{prefix}-{current_date.strftime('%Y%m%d')}-{counter:05d}"
FormatId(prefix, d, counter) ==
    [prefix |-> prefix, date |-> d, num |-> ZeroPad(Digits(counter), 5)]

(* ---------------- state ---------------- *)
VARIABLES
    run,                \* the configuration and dimension tables of this run
    pc,                 \* position in the body of the daily loop
    current_date,       \* run_backfill: current_date
    day_num,            \* run_backfill: day_num
    inventory_state,    \* SimulationState.inventory_state
    pending_shipments,  \* SimulationState.pending_shipments
    shipment_counter,   \* SimulationState.shipment_counter
    delivery_counter,   \* SimulationState.delivery_counter
    assignment_counter, \* SimulationState.assignment_counter
    day_counter,        \* SimulationState.day_counter
    orders_df,          \* today's orders
    items_df,           \* today's order items
    shipments_df,       \* today's new shipments
    arriving_df,        \* today's arriving shipments
    inventory_df,       \* today's inventory snapshot, one row per cell
    deliveries_df,      \* today's deliveries
    assignments_df,     \* today's experiment assignments
    fact_shipments,     \* every shipment created so far (the rows of fact_shipments)
    arrived_log,        \* every (day, shipment) returned as arriving so far
    reorder_log,        \* every (day, cell) whose snapshot row carries the reorder flag
    delivery_ids,       \* every delivery_id written so far, in order
    assignment_ids,     \* every assignment_id written so far, in order
    start_time,         \* run_backfill: start_time, the wall clock at the start
    phase,              \* 0: a single run; 1, 2: first and second of two runs
    tape,               \* the draws of the first of two runs, in order
    trace               \* what the first of two runs left after each step

vars == << run, pc, current_date, day_num, inventory_state, pending_shipments,
           shipment_counter, delivery_counter, assignment_counter, day_counter,
           orders_df, items_df, shipments_df, arriving_df, inventory_df,
           deliveries_df, assignments_df, fact_shipments, arrived_log,
           reorder_log, delivery_ids, assignment_ids,
           start_time, phase, tape, trace >>

\* the variables that only a pair of runs uses
pair_vars == << start_time, phase, tape, trace >>

(* ---------------- the tables of the run ---------------- *)
WAREHOUSE_IDS == run.warehouse_ids
products_df == run.products_df
suppliers_df == run.suppliers_df
experiments_df == run.experiments_df
BACKFILL_END_DATE == run.end_date

\* the cells in the order the nested loops visit them (warehouse-major)
CellSeq ==
    [i \in 1..(Len(WAREHOUSE_IDS) * Len(products_df)) |->
        << WAREHOUSE_IDS[((i - 1) \div Len(products_df)) + 1],
           products_df[((i - 1) % Len(products_df)) + 1].product_id >>]

Cells == Range(CellSeq)

\* the product ids of dim_product
ProductIds == {products_df[i].product_id : i \in DOMAIN products_df}

\* products_df.set_index("product_id").to_dict("index"), for a known product id
product_lookup(pid) ==
    products_df[CHOOSE i \in DOMAIN products_df : products_df[i].product_id = pid]

\* supplier_by_category.get(category, []): the suppliers that list the category,
\* in dimension-table order
supplier_by_category(cat) ==
    SelectSeq(suppliers_df, LAMBDA sup : cat \in Range(sup.product_categories))

(* ---------------- initial state ---------------- *)
InitialStocks == InitStockLo .. (InitStockHi - 1)

\* initialize_inventory with the drawn stock entered as units on order too
initialize_inventoryWithBackorder(stock) ==
    [c \in Cells |-> [closing_stock |-> stock[c], units_on_order |-> stock[c],
                      avg_daily_demand |-> 0]]

\* initialize_inventory: one entry per cell, randomized stock, nothing on order.
\* avg_daily_demand is kept as its sign: 0 is exactly zero, 1 is positive.
initialize_inventory(stock) ==
    [c \in Cells |-> [closing_stock |-> stock[c], units_on_order |-> 0,
                      avg_daily_demand |-> 0]]

\* the state in which the daily loop is entered when the initial stocks
\* have been drawn
StartState(stock) ==
    /\ pc = "orders"
    /\ current_date = BACKFILL_START_DATE
    /\ day_num = 0
    /\ start_time = 0
    /\ inventory_state =
          [c \in Cells \ run.lost_cells |-> initialize_inventory(stock)[c]]
    /\ pending_shipments = <<>>
    /\ shipment_counter = 1
    /\ delivery_counter = 1
    /\ assignment_counter = 1
    /\ day_counter = 0
    /\ orders_df = <<>>
    /\ items_df = <<>>
    /\ shipments_df = <<>>
    /\ arriving_df = <<>>
    /\ inventory_df = <<>>
    /\ deliveries_df = <<>>
    /\ assignments_df = <<>>
    /\ fact_shipments = <<>>
    /\ arrived_log = <<>>
    /\ reorder_log = {}
    /\ delivery_ids = <<>>
    /\ assignment_ids = <<>>

\* a single run of one of the given configurations
InitState(runs) ==
    /\ run \in runs
    /\ \E stock \in [Cells -> InitialStocks] : StartState(stock)
    /\ phase = 0
    /\ tape = <<>>
    /\ trace = <<>>

Init == InitState(Runs)

LiveInit == InitState(LiveRuns)

(* ---------------- order generator ---------------- *)
\* active_experiments without the test on the end date
active_experimentsIgnoringEnd(d) ==
    SelectSeq(experiments_df, LAMBDA e : e.start_date <= d)

\* experiments whose window contains the date (orders.py, active_experiments)
active_experiments(d) ==
    SelectSeq(experiments_df,
              LAMBDA e : e.start_date <= d /\ (e.end_date = NaT \/ e.end_date >= d))

\* ReturnDraws with the return roll made whatever the status
ReturnDrawsAnyStatus(status) == {TRUE, FALSE}

\* return_flag: drawn only for Delivered orders
ReturnDraws(status) == IF status = "Delivered" THEN {TRUE, FALSE} ELSE {FALSE}

\* <<experiment_id, experiment_group>>: the order either stays out (no active
\* experiment, the 40% roll fails, or the sampled experiment does not target
\* the assigned warehouse) or joins the sampled experiment in a drawn group
ExperimentDraws(d, wh) ==
    {<<None, None>>} \cup
    { <<e.experiment_id, g>> :
        e \in {x \in Range(active_experiments(d)) : wh \in Range(x.target_warehouses)},
        g \in {"Control", "Treatment"} }

\* the item rows of one order: 1..5 distinct products, a quantity for each
ItemDraws ==
    UNION { [S -> 1..MaxItemQty] :
            S \in {T \in SUBSET ProductIds : T # {} /\ Cardinality(T) <= 5} }

\* everything the generator draws for one order once the warehouse and the
\* status are drawn: the return roll is made for Delivered orders only
OrderDrawsAt(d, wh, st) ==
    { [assigned_warehouse_id |-> wh, order_status |-> st, return_flag |-> rf,
       experiment_id |-> ex[1], experiment_group |-> ex[2], items |-> it] :
        rf \in ReturnDraws(st), ex \in ExperimentDraws(d, wh), it \in ItemDraws }

OrderDraws(d) ==
    UNION { OrderDrawsAt(d, wh, st) :
            wh \in Range(WAREHOUSE_IDS), st \in ORDER_STATUSES }

\* one row of fact_orders
OrderRow(d, i, o) ==
    [order_id |-> FormatId("ORD", d, i),
     order_date |-> d,
     assigned_warehouse_id |-> o.assigned_warehouse_id,
     order_status |-> o.order_status,
     return_flag |-> o.return_flag,
     experiment_id |-> o.experiment_id,
     experiment_group |-> o.experiment_group]

\* the rows of fact_order_items of one order, in dimension-table order
OrderItemRows(d, i, o) ==
    LET chosen == SelectSeq(products_df, LAMBDA p : p.product_id \in DOMAIN o.items)
    IN  [k \in 1..Len(chosen) |->
            [order_id |-> FormatId("ORD", d, i),
             product_id |-> chosen[k].product_id,
             quantity |-> o.items[chosen[k].product_id]]]

RECURSIVE AllItemRows(_, _, _)
\* items_rows after the orders 1..n have been generated
AllItemRows(d, n, draws) ==
    IF n = 0 THEN <<>>
    ELSE AllItemRows(d, n - 1, draws) \o OrderItemRows(d, n, draws[n])

\* the loop header and generate_daily_orders when it draws n orders with the
\* given draws
OrdersStep(n, draws) ==
    /\ pc = "orders"
    /\ current_date <= BACKFILL_END_DATE
    /\ day_num' = day_num + 1
    /\ day_counter' = day_num + 1
    /\ orders_df' = [i \in 1..n |-> OrderRow(current_date, i, draws[i])]
    /\ items_df' = AllItemRows(current_date, n, draws)
    /\ pc' = "shipments"
    /\ UNCHANGED << run, delivery_ids, assignment_ids, current_date, inventory_state, pending_shipments,
                    shipment_counter, delivery_counter, assignment_counter,
                    shipments_df, arriving_df, inventory_df, deliveries_df,
                    assignments_df, fact_shipments, arrived_log, reorder_log >>

\* run_backfill loop header + generate_daily_orders
GenerateDailyOrders ==
    /\ \E n \in 1..run.max_orders :
       \E draws \in [1..n -> OrderDraws(current_date)] : OrdersStep(n, draws)
    /\ UNCHANGED pair_vars

(* ---------------- shipment pipeline ---------------- *)
ReorderQuantities == ReorderQtyLo .. (ReorderQtyHi - 1)

\* int(rng.normal(base_lead, std_dev)); 0 stands for every draw below 1
LeadDraws == 0 .. MaxLeadDraw

\* rng.random() > reliability_score, then rng.integers(1, 5) on a miss
ReliabilityDraws ==
    {[miss |-> FALSE, extra_delay |-> 0]} \cup
    {[miss |-> TRUE, extra_delay |-> e] : e \in 1..MaxExtraDelay}

\* ReorderGate without the test on units_on_order
ReorderGateStockOnly(inv, c) ==
    /\ c[2] \in ProductIds
    /\ inv[c].closing_stock <= product_lookup(c[2]).reorder_point

\* ReorderGate with the test on units_on_order turned around
ReorderGateNothingOnOrder(inv, c) ==
    /\ c[2] \in ProductIds
    /\ inv[c].closing_stock <= product_lookup(c[2]).reorder_point
    /\ inv[c].units_on_order = 0

\* the creation gate of the pipeline for one cell of the inventory state
ReorderGate(inv, c) ==
    /\ c[2] \in ProductIds
    /\ inv[c].closing_stock <= product_lookup(c[2]).reorder_point
    /\ inv[c].units_on_order > 0

\* CreatesShipment without the test for an available supplier
CreatesShipmentUnchecked(inv, c) == ReorderGate(inv, c)

\* the gate holds and at least one supplier serves the product's category
CreatesShipment(inv, c) ==
    /\ ReorderGate(inv, c)
    /\ supplier_by_category(product_lookup(c[2]).category) # <<>>

\* the cells for which the loop creates a shipment, in iteration order
ShipmentCells(inv) ==
    SelectSeq(CellSeq, LAMBDA c : c \in DOMAIN inv /\ CreatesShipment(inv, c))

\* what the pipeline draws for one shipment
ShipmentDraws(c) ==
    LET avail == supplier_by_category(product_lookup(c[2]).category)
    IN  { [supplier_idx |-> si, quantity |-> q, lead_draw |-> ld,
           miss |-> rd.miss, extra_delay |-> rd.extra_delay] :
            si \in 1..Len(avail), q \in ReorderQuantities,
            ld \in LeadDraws, rd \in ReliabilityDraws }

\* ActualLead without the floor of one day
ActualLeadUnfloored(dr) == dr.lead_draw + (IF dr.miss THEN dr.extra_delay ELSE 0)

\* max(1, int(rng.normal(...))), plus the extra delay on a reliability miss
ActualLead(dr) == Max(1, dr.lead_draw) + (IF dr.miss THEN dr.extra_delay ELSE 0)

\* DelayDays with the distance from the nominal lead time instead of the excess
DelayDaysAbs(base_lead, dr) ==
    IF ActualLead(dr) >= base_lead
    THEN ActualLead(dr) - base_lead
    ELSE base_lead - ActualLead(dr)

\* delay_days: max(0, actual - base) unless the miss branch overwrites it
DelayDays(base_lead, dr) ==
    IF dr.miss
    THEN ActualLead(dr) - base_lead
    ELSE Max(0, Max(1, dr.lead_draw) - base_lead)

\* delay_flag: delay_days > 0 unless the miss branch sets it
DelayFlag(base_lead, dr) ==
    IF dr.miss THEN TRUE ELSE Max(0, Max(1, dr.lead_draw) - base_lead) > 0

\* DateTimeCombine with the seconds of the wall clock instead of midnight
DateTimeFromClock(d) == [date |-> d, time |-> <<0, 0, start_time>>]

\* now = datetime.combine(current_date, datetime.min.time()): midnight of the day
DateTimeCombine(d) == [date |-> d, time |-> <<0, 0, 0>>]

\* the shipment record built for cell c with counter value ctr
NewShipment(d, c, ctr, dr) ==
    LET supplier == supplier_by_category(product_lookup(c[2]).category)[dr.supplier_idx]
        base_lead == supplier.average_lead_time
    IN  [shipment_id |-> FormatId("SHP", d, ctr),
         supplier_id |-> supplier.supplier_id,
         warehouse_id |-> c[1],
         product_id |-> c[2],
         quantity |-> dr.quantity,
         shipment_date |-> d,
         expected_arrival_date |-> d + base_lead,
         actual_arrival_date |-> d + ActualLead(dr),
         delay_days |-> DelayDays(base_lead, dr),
         delay_flag |-> DelayFlag(base_lead, dr),
         created_at |-> DateTimeCombine(d),
         updated_at |-> DateTimeCombine(d)]

\* NewShipments without the counter advancing inside the loop
NewShipmentsSameCounter(d, inv, ctr, draws) ==
    LET cs == ShipmentCells(inv)
    IN  [k \in 1..Len(cs) |-> NewShipment(d, cs[k], ctr, draws[cs[k]])]

\* new_shipments: one shipment per creating cell, counter advanced each time
NewShipments(d, inv, ctr, draws) ==
    LET cs == ShipmentCells(inv)
    IN  [k \in 1..Len(cs) |-> NewShipment(d, cs[k], ctr + (k - 1), draws[cs[k]])]

\* ArrivingToday selecting on the expected instead of the actual arrival date
ArrivingTodayByExpected(pending, d) ==
    SelectSeq(pending, LAMBDA s : s.expected_arrival_date = d)

\* arriving_today
ArrivingToday(pending, d) ==
    SelectSeq(pending, LAMBDA s : s.actual_arrival_date = d)

\* StillPending keeping the shipments whose expected arrival date is ahead
StillPendingByExpected(pending, d) ==
    SelectSeq(pending, LAMBDA s : s.expected_arrival_date > d)

\* pending_shipments after the arrived ones are removed
StillPending(pending, d) ==
    SelectSeq(pending, LAMBDA s : s.actual_arrival_date > d)

\* the draws the pipeline can make on a state: one for each creating cell
PipelineDraws(inv) ==
    {draws \in [Range(ShipmentCells(inv)) ->
                    UNION {ShipmentDraws(c) : c \in Range(ShipmentCells(inv))}] :
        \A c \in DOMAIN draws : draws[c] \in ShipmentDraws(c)}

\* ShipmentsStep with the pipeline settling the units on order of every cell
\* it creates a shipment for
ShipmentsStepSettlingOnOrder(draws) ==
    /\ pc = "shipments"
    /\ LET new == NewShipments(current_date, inventory_state,
                               shipment_counter, draws)
           queued == pending_shipments \o new
       IN  /\ shipments_df' = new
           /\ arriving_df' = ArrivingToday(queued, current_date)
           /\ pending_shipments' = StillPending(queued, current_date)
           /\ shipment_counter' = shipment_counter + Len(new)
           /\ fact_shipments' = fact_shipments \o new
           /\ arrived_log' = arrived_log \o
                  [k \in 1..Len(ArrivingToday(queued, current_date)) |->
                      [date |-> current_date,
                       shipment_id |-> ArrivingToday(queued, current_date)[k].shipment_id]]
           /\ inventory_state' =
                  [c \in DOMAIN inventory_state |->
                      IF c \in Range(ShipmentCells(inventory_state))
                      THEN [inventory_state[c] EXCEPT !.units_on_order = 0]
                      ELSE inventory_state[c]]
    /\ pc' = "inventory"
    /\ UNCHANGED << run, delivery_ids, assignment_ids, current_date, day_num, delivery_counter,
                    assignment_counter, day_counter, orders_df, items_df,
                    inventory_df, deliveries_df, assignments_df, reorder_log >>

\* generate_daily_shipments with the given draws, and the save of fact_shipments
ShipmentsStep(draws) ==
    /\ pc = "shipments"
    /\ LET new == NewShipments(current_date, inventory_state,
                               shipment_counter, draws)
           queued == pending_shipments \o new
       IN  /\ shipments_df' = new
           /\ arriving_df' = ArrivingToday(queued, current_date)
           /\ pending_shipments' = StillPending(queued, current_date)
           /\ shipment_counter' = shipment_counter + Len(new)
           /\ fact_shipments' = fact_shipments \o new
           /\ arrived_log' = arrived_log \o
                  [k \in 1..Len(ArrivingToday(queued, current_date)) |->
                      [date |-> current_date,
                       shipment_id |-> ArrivingToday(queued, current_date)[k].shipment_id]]
    /\ pc' = "inventory"
    /\ UNCHANGED << run, delivery_ids, assignment_ids, current_date, day_num, inventory_state, delivery_counter,
                    assignment_counter, day_counter, orders_df, items_df,
                    inventory_df, deliveries_df, assignments_df, reorder_log >>

\* generate_daily_shipments
GenerateDailyShipments ==
    /\ \E draws \in PipelineDraws(inventory_state) : ShipmentsStep(draws)
    /\ UNCHANGED pair_vars

(* ---------------- inventory ledger ---------------- *)
\* the order row an item row joins to (merge on order_id, how="left")
OrderOf(orders, item) ==
    CHOOSE i \in DOMAIN orders : orders[i].order_id = item.order_id

\* units_sold_map counting the items of every order that is not Cancelled
units_sold_mapNotCancelled(orders, items, c) ==
    IF Len(orders) > 0 /\ Len(items) > 0
    THEN SumQty(SelectSeq(items, LAMBDA it :
            /\ orders[OrderOf(orders, it)].order_status # "Cancelled"
            /\ orders[OrderOf(orders, it)].assigned_warehouse_id = c[1]
            /\ it.product_id = c[2]))
    ELSE 0

\* units_sold_map.get(key, 0): items of Delivered/Shipped/Processing orders,
\* grouped by the order's assigned warehouse and the item's product
units_sold_map(orders, items, c) ==
    IF Len(orders) > 0 /\ Len(items) > 0
    THEN SumQty(SelectSeq(items, LAMBDA it :
            /\ orders[OrderOf(orders, it)].order_status
                  \in {"Delivered", "Shipped", "Processing"}
            /\ orders[OrderOf(orders, it)].assigned_warehouse_id = c[1]
            /\ it.product_id = c[2]))
    ELSE 0

\* units_received_map.get(key, 0): arriving shipments grouped by cell
units_received_map(arriving, c) ==
    SumQty(SelectSeq(arriving, LAMBDA sh :
            sh.warehouse_id = c[1] /\ sh.product_id = c[2]))

\* units_returned_map counting the items of every order, flagged or not
units_returned_mapAllOrders(orders, items, c) ==
    IF Len(orders) > 0 /\ Len(items) > 0
    THEN SumQty(SelectSeq(items, LAMBDA it :
            /\ orders[OrderOf(orders, it)].assigned_warehouse_id = c[1]
            /\ it.product_id = c[2]))
    ELSE 0

\* units_returned_map.get(key, 0): items of orders with return_flag set
units_returned_map(orders, items, c) ==
    IF Len(orders) > 0 /\ Len(items) > 0
    THEN SumQty(SelectSeq(items, LAMBDA it :
            /\ orders[OrderOf(orders, it)].return_flag = TRUE
            /\ orders[OrderOf(orders, it)].assigned_warehouse_id = c[1]
            /\ it.product_id = c[2]))
    ELSE 0

\* DefaultPrev with an empty cell as the baseline
DefaultPrevEmpty == [closing_stock |-> 0, units_on_order |-> 0, avg_daily_demand |-> 0]

\* the state assumed for a cell without an entry (the literal of the code, unscaled)
DefaultPrev == [closing_stock |-> 100, units_on_order |-> 0, avg_daily_demand |-> 0]

\* inventory_state.get(key, default)
PrevState(inv, c) == IF c \in DOMAIN inv THEN inv[c] ELSE DefaultPrev

\* ClosingStock without the returned units
ClosingStockNoReturns(inv, orders, items, arriving, c) ==
    Max(0, PrevState(inv, c).closing_stock
           - units_sold_map(orders, items, c)
           + units_received_map(arriving, c))

\* ClosingStock without the clamp at zero
ClosingStockUnclamped(inv, orders, items, arriving, c) ==
    PrevState(inv, c).closing_stock
    - units_sold_map(orders, items, c)
    + units_received_map(arriving, c)
    + units_returned_map(orders, items, c)

\* closing_stock of the cell for today
ClosingStock(inv, orders, items, arriving, c) ==
    Max(0, PrevState(inv, c).closing_stock
           - units_sold_map(orders, items, c)
           + units_received_map(arriving, c)
           + units_returned_map(orders, items, c))

\* ReorderTriggered with the units on order taken after today's receipts
ReorderTriggeredAfterReceipt(inv, orders, items, arriving, c) ==
    /\ ClosingStock(inv, orders, items, arriving, c)
          <= product_lookup(c[2]).reorder_point
    /\ (IF units_received_map(arriving, c) > 0
        THEN Max(0, PrevState(inv, c).units_on_order - units_received_map(arriving, c))
        ELSE PrevState(inv, c).units_on_order) = 0

\* ReorderTriggered without the test on the units on order
ReorderTriggeredIgnoringOnOrder(inv, orders, items, arriving, c) ==
    ClosingStock(inv, orders, items, arriving, c)
        <= product_lookup(c[2]).reorder_point

\* reorder_triggered: at or below the reorder point and nothing on order before
ReorderTriggered(inv, orders, items, arriving, c) ==
    /\ ClosingStock(inv, orders, items, arriving, c)
          <= product_lookup(c[2]).reorder_point
    /\ PrevState(inv, c).units_on_order = 0

\* OnOrderAfterReceipt writing off the units on order on a day without receipt
OnOrderAfterReceiptExpiring(inv, arriving, c) ==
    IF units_received_map(arriving, c) > 0
    THEN Max(0, PrevState(inv, c).units_on_order - units_received_map(arriving, c))
    ELSE 0

\* OnOrderAfterReceipt without the floor at zero
OnOrderAfterReceiptUnfloored(inv, arriving, c) ==
    PrevState(inv, c).units_on_order - units_received_map(arriving, c)

\* units_on_order after today's receipts are deducted (before a new reorder)
OnOrderAfterReceipt(inv, arriving, c) ==
    IF units_received_map(arriving, c) > 0
    THEN Max(0, PrevState(inv, c).units_on_order - units_received_map(arriving, c))
    ELSE PrevState(inv, c).units_on_order

\* units_on_order stored for the cell; rq is the drawn reorder quantity
UnitsOnOrder(inv, orders, items, arriving, c, rq) ==
    IF ReorderTriggered(inv, orders, items, arriving, c)
    THEN OnOrderAfterReceipt(inv, arriving, c) + rq
    ELSE OnOrderAfterReceipt(inv, arriving, c)

\* the sign of prev * (1 - alpha) + units_sold * alpha
AvgDemand(inv, orders, items, c) ==
    IF PrevState(inv, c).avg_daily_demand > 0 \/ units_sold_map(orders, items, c) > 0
    THEN 1 ELSE 0

\* one row of fact_inventory_snapshot
SnapshotRow(d, inv, orders, items, arriving, c, rq) ==
    [snapshot_date |-> d,
     warehouse_id |-> c[1],
     product_id |-> c[2],
     opening_stock |-> PrevState(inv, c).closing_stock,
     units_sold |-> units_sold_map(orders, items, c),
     units_received |-> units_received_map(arriving, c),
     units_returned |-> units_returned_map(orders, items, c),
     closing_stock |-> ClosingStock(inv, orders, items, arriving, c),
     stockout_flag |-> (ClosingStock(inv, orders, items, arriving, c) = 0),
     below_safety_stock_flag |->
        (ClosingStock(inv, orders, items, arriving, c)
            < product_lookup(c[2]).safety_stock),
     reorder_triggered_flag |-> ReorderTriggered(inv, orders, items, arriving, c),
     units_on_order |-> UnitsOnOrder(inv, orders, items, arriving, c, rq)]

\* the entry stored in inventory_state for the next day
NextInventoryEntry(inv, orders, items, arriving, c, rq) ==
    [closing_stock |-> ClosingStock(inv, orders, items, arriving, c),
     units_on_order |-> UnitsOnOrder(inv, orders, items, arriving, c, rq),
     avg_daily_demand |-> AvgDemand(inv, orders, items, c)]

\* the cells for which a reorder quantity is drawn today
TriggeredCells(inv, orders, items, arriving) ==
    {c \in Cells : ReorderTriggered(inv, orders, items, arriving, c)}

\* generate_daily_inventory_snapshot with the given reorder quantities
InventoryStep(draws) ==
    /\ pc = "inventory"
    /\ LET rq(c) == IF c \in DOMAIN draws THEN draws[c] ELSE 0
       IN  /\ inventory_df' =
                 [c \in Cells |->
                     SnapshotRow(current_date, inventory_state, orders_df,
                                 items_df, arriving_df, c, rq(c))]
           /\ reorder_log' = reorder_log \cup
                 { <<current_date, c>> : c \in DOMAIN draws }
           /\ inventory_state' =
                 [c \in (DOMAIN inventory_state) \cup Cells |->
                     IF c \in Cells
                     THEN NextInventoryEntry(inventory_state, orders_df,
                                             items_df, arriving_df, c, rq(c))
                     ELSE inventory_state[c]]
    /\ pc' = "deliveries"
    /\ UNCHANGED << run, delivery_ids, assignment_ids, current_date, day_num, pending_shipments, shipment_counter,
                    delivery_counter, assignment_counter, day_counter, orders_df,
                    items_df, shipments_df, arriving_df, deliveries_df,
                    assignments_df, fact_shipments, arrived_log >>

\* generate_daily_inventory_snapshot
GenerateDailyInventorySnapshot ==
    /\ \E draws \in [TriggeredCells(inventory_state, orders_df, items_df, arriving_df)
                        -> ReorderQuantities] : InventoryStep(draws)
    /\ UNCHANGED pair_vars

(* ---------------- deliveries and experiment assignments ---------------- *)
\* ActiveOrders keeping only the orders that debit stock
ActiveOrdersDebiting(orders) ==
    SelectSeq(orders, LAMBDA o :
        o.order_status \in {"Delivered", "Shipped", "Processing"})

\* active_orders: everything but Cancelled
ActiveOrders(orders) ==
    SelectSeq(orders, LAMBDA o : o.order_status # "Cancelled")

\* generate_daily_deliveries: one delivery per active order
DeliveriesStep ==
    /\ pc = "deliveries"
    /\ LET active == ActiveOrders(orders_df)
       IN  /\ deliveries_df' =
                 [k \in 1..Len(active) |->
                    [delivery_id |-> FormatId("DEL", current_date,
                                              delivery_counter + (k - 1)),
                     order_id |-> active[k].order_id,
                     warehouse_id |-> active[k].assigned_warehouse_id]]
           /\ delivery_counter' = delivery_counter + Len(active)
           /\ delivery_ids' = delivery_ids \o
                 [k \in 1..Len(active) |->
                    FormatId("DEL", current_date, delivery_counter + (k - 1))]
    /\ pc' = "assignments"
    /\ UNCHANGED << run, assignment_ids, current_date, day_num, inventory_state, pending_shipments,
                    shipment_counter, assignment_counter, day_counter, orders_df,
                    items_df, shipments_df, arriving_df, inventory_df,
                    assignments_df, fact_shipments, arrived_log, reorder_log >>

GenerateDailyDeliveries == DeliveriesStep /\ UNCHANGED pair_vars

\* experiment_orders: the orders that carry an experiment_id
ExperimentOrders(orders) ==
    SelectSeq(orders, LAMBDA o : o.experiment_id # None)

\* generate_daily_experiment_assignments
AssignmentsStep ==
    /\ pc = "assignments"
    /\ LET enrolled == ExperimentOrders(orders_df)
       IN  /\ assignments_df' =
                 [k \in 1..Len(enrolled) |->
                    [assignment_id |-> FormatId("ASG", current_date,
                                                assignment_counter + (k - 1)),
                     experiment_id |-> enrolled[k].experiment_id,
                     order_id |-> enrolled[k].order_id,
                     group_name |-> enrolled[k].experiment_group,
                     warehouse_id |-> enrolled[k].assigned_warehouse_id]]
           /\ assignment_counter' = assignment_counter + Len(enrolled)
           /\ assignment_ids' = assignment_ids \o
                 [k \in 1..Len(enrolled) |->
                    FormatId("ASG", current_date, assignment_counter + (k - 1))]
    /\ pc' = "save"
    /\ UNCHANGED << run, delivery_ids, current_date, day_num, inventory_state, pending_shipments,
                    shipment_counter, delivery_counter, day_counter, orders_df,
                    items_df, shipments_df, arriving_df, inventory_df,
                    deliveries_df, fact_shipments, arrived_log, reorder_log >>

GenerateDailyExperimentAssignments == AssignmentsStep /\ UNCHANGED pair_vars

\* SaveStep advancing the date by two days
SaveStepSkippingADay ==
    /\ pc = "save"
    /\ current_date' = current_date + 2
    /\ pc' = IF current_date + 2 <= BACKFILL_END_DATE THEN "orders" ELSE "done"
    /\ orders_df' = <<>>
    /\ items_df' = <<>>
    /\ shipments_df' = <<>>
    /\ arriving_df' = <<>>
    /\ inventory_df' = <<>>
    /\ deliveries_df' = <<>>
    /\ assignments_df' = <<>>
    /\ UNCHANGED << run, delivery_ids, assignment_ids, day_num, inventory_state, pending_shipments, shipment_counter,
                    delivery_counter, assignment_counter, day_counter,
                    fact_shipments, arrived_log, reorder_log >>

\* the end of the loop body: the day's tables are written out and the date
\* advances; the tables are locals that the next iteration overwrites
SaveStep ==
    /\ pc = "save"
    /\ current_date' = current_date + 1
    /\ pc' = IF current_date + 1 <= BACKFILL_END_DATE THEN "orders" ELSE "done"
    /\ orders_df' = <<>>
    /\ items_df' = <<>>
    /\ shipments_df' = <<>>
    /\ arriving_df' = <<>>
    /\ inventory_df' = <<>>
    /\ deliveries_df' = <<>>
    /\ assignments_df' = <<>>
    /\ UNCHANGED << run, delivery_ids, assignment_ids, day_num, inventory_state, pending_shipments, shipment_counter,
                    delivery_counter, assignment_counter, day_counter,
                    fact_shipments, arrived_log, reorder_log >>

SaveDay == SaveStep /\ UNCHANGED pair_vars

Next ==
    \/ GenerateDailyOrders
    \/ GenerateDailyShipments
    \/ GenerateDailyInventorySnapshot
    \/ GenerateDailyDeliveries
    \/ GenerateDailyExperimentAssignments
    \/ SaveDay

Spec == Init /\ [][Next]_vars

\* the loop is a single thread that keeps running: a step that can be taken is
\* eventually taken
LiveSpec == LiveInit /\ [][Next]_vars /\ WF_vars(Next)

(* ---------------- two runs from the same seed ---------------- *)
\* Both runs build their generator from RANDOM_SEED, so the second run is
\* handed the draws of the first, in the same order.  What the runs do not
\* share is the wall clock: the second run starts later.

\* what a run shows after a step: the date, the carried state and the tables
Observed ==
    << current_date, inventory_state, pending_shipments, shipment_counter,
       delivery_counter, assignment_counter, day_counter, orders_df, items_df,
       shipments_df, arriving_df, inventory_df, deliveries_df, assignments_df >>

\* the configurations that are run twice
TwinRuns == {NetworkRun, BusyDayRun}

TwinInit ==
    /\ run \in TwinRuns
    /\ \E stock \in [Cells -> InitialStocks] :
          /\ StartState(stock)
          /\ tape = <<stock>>
    /\ phase = 1
    /\ trace = <<Observed>>

\* a step of the first run that draws: the draws go on the tape
Recorded(step, drawn) ==
    /\ phase = 1
    /\ step
    /\ tape' = Append(tape, drawn)
    /\ trace' = Append(trace, Observed')
    /\ UNCHANGED << start_time, phase >>

\* a step of the first run that draws nothing that is modelled
RecordedPlain(step) ==
    /\ phase = 1
    /\ step
    /\ trace' = Append(trace, Observed')
    /\ UNCHANGED << start_time, phase, tape >>

FirstOrders ==
    \E n \in 1..run.max_orders :
    \E draws \in [1..n -> OrderDraws(current_date)] :
        Recorded(OrdersStep(n, draws), [n |-> n, draws |-> draws])

FirstShipments ==
    \E draws \in PipelineDraws(inventory_state) :
        Recorded(ShipmentsStep(draws), draws)

FirstInventory ==
    \E draws \in [TriggeredCells(inventory_state, orders_df, items_df, arriving_df)
                    -> ReorderQuantities] :
        Recorded(InventoryStep(draws), draws)

FirstDeliveries == RecordedPlain(DeliveriesStep)

FirstAssignments == RecordedPlain(AssignmentsStep)

FirstSave == RecordedPlain(SaveStep)

\* run_backfill is called again: a new generator from the same seed, a new
\* state object, the initial stocks drawn again, a later start_time
SecondRunStarts ==
    /\ phase = 1
    /\ pc = "done"
    /\ phase' = 2
    /\ start_time' = start_time + 1
    /\ pc' = "orders"
    /\ current_date' = BACKFILL_START_DATE
    /\ day_num' = 0
    /\ inventory_state' =
          [c \in Cells \ run.lost_cells |-> initialize_inventory(Head(tape))[c]]
    /\ pending_shipments' = <<>>
    /\ shipment_counter' = 1
    /\ delivery_counter' = 1
    /\ assignment_counter' = 1
    /\ day_counter' = 0
    /\ orders_df' = <<>>
    /\ items_df' = <<>>
    /\ shipments_df' = <<>>
    /\ arriving_df' = <<>>
    /\ inventory_df' = <<>>
    /\ deliveries_df' = <<>>
    /\ assignments_df' = <<>>
    /\ fact_shipments' = <<>>
    /\ arrived_log' = <<>>
    /\ reorder_log' = {}
    /\ delivery_ids' = <<>>
    /\ assignment_ids' = <<>>
    /\ tape' = Tail(tape)
    /\ trace' = Tail(trace)
    /\ UNCHANGED run

\* a step of the second run that draws: it gets the next draws of the tape
SecondOrders ==
    /\ phase = 2
    /\ tape # <<>>
    /\ OrdersStep(Head(tape).n, Head(tape).draws)
    /\ tape' = Tail(tape)
    /\ trace' = Tail(trace)
    /\ UNCHANGED << start_time, phase >>

SecondShipments ==
    /\ phase = 2
    /\ tape # <<>>
    /\ ShipmentsStep(Head(tape))
    /\ tape' = Tail(tape)
    /\ trace' = Tail(trace)
    /\ UNCHANGED << start_time, phase >>

SecondInventory ==
    /\ phase = 2
    /\ tape # <<>>
    /\ InventoryStep(Head(tape))
    /\ tape' = Tail(tape)
    /\ trace' = Tail(trace)
    /\ UNCHANGED << start_time, phase >>

\* a step of the second run that draws nothing that is modelled
Replayed(step) ==
    /\ phase = 2
    /\ step
    /\ trace' = Tail(trace)
    /\ UNCHANGED << start_time, phase, tape >>

SecondDeliveries == Replayed(DeliveriesStep)

SecondAssignments == Replayed(AssignmentsStep)

SecondSave == Replayed(SaveStep)

TwinNext ==
    \/ FirstOrders
    \/ FirstShipments
    \/ FirstInventory
    \/ FirstDeliveries
    \/ FirstAssignments
    \/ FirstSave
    \/ SecondRunStarts
    \/ SecondOrders
    \/ SecondShipments
    \/ SecondInventory
    \/ SecondDeliveries
    \/ SecondAssignments
    \/ SecondSave

TwinSpec == TwinInit /\ [][TwinNext]_vars

(* ---------------- checkpointing ---------------- *)
\* Text is a sequence of one-character strings.  A Python object whose type
\* the serialization changes is a record [kind, val]: kind is "date",
\* "datetime" or "str", and val the day number, the datetime or the text.

\* BACKFILL_START_DATE = date(2022, 2, 1) is day number 1
StartYear == 2022
StartMonth == 2

\* the latest day number a shipment of the explored runs can carry
Horizon == EndDay + 2 * MaxLeadDraw + MaxExtraDelay + 3

DigitChars == <<"0", "1", "2", "3", "4", "5", "6", "7", "8", "9">>

\* the decimal text of a natural number, left-padded with zeros to width w
NatText(n, w) ==
    LET ds == ZeroPad(Digits(n), w)
    IN  [i \in 1..Len(ds) |-> DigitChars[ds[i] + 1]]

IsDigitText(t) ==
    Len(t) > 0 /\ \A i \in DOMAIN t : \E k \in 1..10 : DigitChars[k] = t[i]

RECURSIVE TextNat(_)
\* the natural number a text of digits denotes
TextNat(t) ==
    IF t = <<>> THEN 0
    ELSE 10 * TextNat(SubSeq(t, 1, Len(t) - 1))
         + ((CHOOSE k \in 1..10 : DigitChars[k] = t[Len(t)]) - 1)

DaysInMonth(y, m) ==
    IF m = 2
    THEN (IF y % 4 = 0 /\ (y % 100 # 0 \/ y % 400 = 0) THEN 29 ELSE 28)
    ELSE IF m \in {4, 6, 9, 11} THEN 30 ELSE 31

RECURSIVE CalendarDate(_, _, _)
\* <<year, month, day>> of the d-th day counted from the first of month m
CalendarDate(y, m, d) ==
    IF d <= DaysInMonth(y, m) THEN <<y, m, d>>
    ELSE IF m = 12 THEN CalendarDate(y + 1, 1, d - DaysInMonth(y, m))
    ELSE CalendarDate(y, m + 1, d - DaysInMonth(y, m))

\* the calendar date of a day number
DateOf(n) == CalendarDate(StartYear, StartMonth, n)

\* str(d) of a date: YYYY-MM-DD
DateText(n) ==
    LET ymd == DateOf(n)
    IN  NatText(ymd[1], 4) \o <<"-">> \o NatText(ymd[2], 2)
            \o <<"-">> \o NatText(ymd[3], 2)

\* str(t) of a datetime without microseconds: YYYY-MM-DD HH:MM:SS
DateTimeText(t) ==
    DateText(t.date) \o <<" ">> \o NatText(t.time[1], 2) \o <<":">>
        \o NatText(t.time[2], 2) \o <<":">> \o NatText(t.time[3], 2)

\* the text is YYYY-MM-DD and names a day of the calendar
IsDateText(t) ==
    /\ Len(t) = 10
    /\ t[5] = "-" /\ t[8] = "-"
    /\ IsDigitText(SubSeq(t, 1, 4))
    /\ IsDigitText(SubSeq(t, 6, 7))
    /\ IsDigitText(SubSeq(t, 9, 10))
    /\ LET ymd == << TextNat(SubSeq(t, 1, 4)), TextNat(SubSeq(t, 6, 7)),
                      TextNat(SubSeq(t, 9, 10)) >>
       IN  \E n \in 1..Horizon : DateOf(n) = ymd

\* date.fromisoformat(t) for a text that IsDateText accepts
TextDate(t) ==
    LET ymd == << TextNat(SubSeq(t, 1, 4)), TextNat(SubSeq(t, 6, 7)),
                  TextNat(SubSeq(t, 9, 10)) >>
    IN  CHOOSE n \in 1..Horizon : DateOf(n) = ymd

\* the text is a date, one separator character and HH:MM:SS
IsDateTimeText(t) ==
    /\ Len(t) = 19
    /\ IsDateText(SubSeq(t, 1, 10))
    /\ t[14] = ":" /\ t[17] = ":"
    /\ IsDigitText(SubSeq(t, 12, 13)) /\ TextNat(SubSeq(t, 12, 13)) < 24
    /\ IsDigitText(SubSeq(t, 15, 16)) /\ TextNat(SubSeq(t, 15, 16)) < 60
    /\ IsDigitText(SubSeq(t, 18, 19)) /\ TextNat(SubSeq(t, 18, 19)) < 60

\* datetime.fromisoformat(t) for a text that IsDateTimeText accepts
TextDateTime(t) ==
    [date |-> TextDate(SubSeq(t, 1, 10)),
     time |-> << TextNat(SubSeq(t, 12, 13)), TextNat(SubSeq(t, 15, 16)),
                 TextNat(SubSeq(t, 18, 19)) >>]

\* the characters of the warehouse and product identifiers of the runs
Spell(id) ==
    CASE id = "WH-001" -> <<"W", "H", "-", "0", "0", "1">>
      [] id = "WH-002" -> <<"W", "H", "-", "0", "0", "2">>
      [] id = "P1" -> <<"P", "1">>
      [] id = "P2" -> <<"P", "2">>
      [] id = "P3" -> <<"P", "3">>

RECURSIVE Split(_, _)
\* t.split(sep): the pieces of the text between the separators
Split(t, sep) ==
    IF \E i \in DOMAIN t : t[i] = sep
    THEN LET i == CHOOSE i \in DOMAIN t :
                     t[i] = sep /\ \A j \in 1..(i - 1) : t[j] # sep
         IN  <<SubSeq(t, 1, i - 1)>> \o Split(SubSeq(t, i + 1, Len(t)), sep)
    ELSE <<t>>

\* the fields of a shipment that hold date objects and datetime objects
DateFields == {"shipment_date", "expected_arrival_date", "actual_arrival_date"}

TimestampFields == {"created_at", "updated_at"}

\* a pending shipment as the objects of the program: dates and timestamps are
\* objects with an isoformat method, everything else is an int, bool or str
ShipmentObject(sh) ==
    [f \in DOMAIN sh |->
        IF f \in DateFields THEN [kind |-> "date", val |-> sh[f]]
        ELSE IF f \in TimestampFields THEN [kind |-> "datetime", val |-> sh[f]]
        ELSE sh[f]]

\* the SimulationState object: the inventory map keyed by tuples of
\* identifier texts, the pending list and the four counters
StateObject ==
    [inventory_state |->
        [k \in {<<Spell(c[1]), Spell(c[2])>> : c \in DOMAIN inventory_state} |->
            inventory_state[CHOOSE c \in DOMAIN inventory_state :
                               <<Spell(c[1]), Spell(c[2])>> = k]],
     pending_shipments |->
        [i \in DOMAIN pending_shipments |-> ShipmentObject(pending_shipments[i])],
     shipment_counter |-> shipment_counter,
     delivery_counter |-> delivery_counter,
     assignment_counter |-> assignment_counter,
     day_counter |-> day_counter]

\* f"{wh_id}|{pid}"
FlatKey(k) == k[1] \o <<"|">> \o k[2]

\* str(v) if hasattr(v, 'isoformat') else v, for a date, datetime or str object
Stringify(v) ==
    IF v.kind = "date" THEN [kind |-> "str", val |-> DateText(v.val)]
    ELSE IF v.kind = "datetime" THEN [kind |-> "str", val |-> DateTimeText(v.val)]
    ELSE v

\* s_copy of to_dict: every value with an isoformat method becomes its text
StringifyShipment(sh) ==
    [f \in DOMAIN sh |->
        IF f \in DateFields \cup TimestampFields THEN Stringify(sh[f]) ELSE sh[f]]

\* SimulationState.to_dict
to_dict(st) ==
    [inventory_state |->
        [ks \in {FlatKey(k) : k \in DOMAIN st.inventory_state} |->
            st.inventory_state[CHOOSE k \in DOMAIN st.inventory_state :
                                  FlatKey(k) = ks]],
     pending_shipments |->
        [i \in DOMAIN st.pending_shipments |->
            StringifyShipment(st.pending_shipments[i])],
     shipment_counter |-> st.shipment_counter,
     delivery_counter |-> st.delivery_counter,
     assignment_counter |-> st.assignment_counter,
     day_counter |-> st.day_counter]

\* RestoreShipment parsing the date fields only
RestoreShipmentDatesOnly(sh) ==
    [f \in DOMAIN sh |->
        IF f \in DateFields /\ sh[f].kind = "str" /\ IsDateText(sh[f].val)
        THEN [kind |-> "date", val |-> TextDate(sh[f].val)]
        ELSE sh[f]]

\* the loops of from_dict over the date fields and the timestamp fields: a str
\* value is parsed, and is left as it is when the parse raises ValueError
RestoreShipment(sh) ==
    [f \in DOMAIN sh |->
        IF f \in DateFields /\ sh[f].kind = "str" /\ IsDateText(sh[f].val)
        THEN [kind |-> "date", val |-> TextDate(sh[f].val)]
        ELSE IF f \in TimestampFields /\ sh[f].kind = "str"
                /\ IsDateTimeText(sh[f].val)
        THEN [kind |-> "datetime", val |-> TextDateTime(sh[f].val)]
        ELSE sh[f]]

\* SimulationState.from_dict; unpacking key.split("|") into two names raises
\* ValueError unless the key has exactly two pieces
from_dict(data) ==
    LET pieces == [ks \in DOMAIN data.inventory_state |-> Split(ks, "|")]
    IN
    IF \E ks \in DOMAIN pieces : Len(pieces[ks]) # 2
    THEN [raised |-> "ValueError"]
    ELSE
    [inventory_state |->
        [k \in {<<pieces[ks][1], pieces[ks][2]>> : ks \in DOMAIN pieces} |->
            data.inventory_state[CHOOSE ks \in DOMAIN pieces :
                                    <<pieces[ks][1], pieces[ks][2]>> = k]],
     pending_shipments |->
        [i \in DOMAIN data.pending_shipments |->
            RestoreShipment(data.pending_shipments[i])],
     shipment_counter |-> data.shipment_counter,
     delivery_counter |-> data.delivery_counter,
     assignment_counter |-> data.assignment_counter,
     day_counter |-> data.day_counter]

\* JSON text is kept as its tokens: a number is its sign and digits, a string
\* its content, a literal its word
JsonNumber(n) ==
    [kind |-> "number",
     val |-> IF n < 0 THEN <<"-">> \o NatText(0 - n, 1) ELSE NatText(n, 1)]

JsonString(t) == [kind |-> "string", val |-> t]

JsonLiteral(b) == [kind |-> "literal", val |-> IF b THEN "true" ELSE "false"]

\* the int a number token denotes
NumberOf(tok) ==
    IF tok.val[1] = "-" THEN 0 - TextNat(Tail(tok.val)) ELSE TextNat(tok.val)

\* the fields of a shipment that hold ints, and the one that holds a bool
IntFields == {"quantity", "delay_days"}

BoolFields == {"delay_flag"}

\* json.dumps of one shipment of the dictionary; default=str turns an object
\* that is still a date or datetime into its text
JsonShipment(sh) ==
    [f \in DOMAIN sh |->
        IF f \in IntFields THEN JsonNumber(sh[f])
        ELSE IF f \in BoolFields THEN JsonLiteral(sh[f])
        ELSE IF f \in DateFields \cup TimestampFields
        THEN JsonString(Stringify(sh[f]).val)
        ELSE JsonString(sh[f])]

\* json.loads of one shipment: every string token is a str object
LoadedShipment(js) ==
    [f \in DOMAIN js |->
        IF f \in IntFields THEN NumberOf(js[f])
        ELSE IF f \in BoolFields THEN js[f].val = "true"
        ELSE IF f \in DateFields \cup TimestampFields
        THEN [kind |-> "str", val |-> js[f].val]
        ELSE js[f].val]

\* json.dumps of a dictionary of the shape to_dict returns
JsonDumps(d) ==
    [inventory_state |->
        [ks \in DOMAIN d.inventory_state |->
            [closing_stock |-> JsonNumber(d.inventory_state[ks].closing_stock),
             units_on_order |-> JsonNumber(d.inventory_state[ks].units_on_order),
             avg_daily_demand |->
                JsonNumber(d.inventory_state[ks].avg_daily_demand)]],
     pending_shipments |->
        [i \in DOMAIN d.pending_shipments |-> JsonShipment(d.pending_shipments[i])],
     shipment_counter |-> JsonNumber(d.shipment_counter),
     delivery_counter |-> JsonNumber(d.delivery_counter),
     assignment_counter |-> JsonNumber(d.assignment_counter),
     day_counter |-> JsonNumber(d.day_counter)]

\* json.loads
JsonLoads(js) ==
    [inventory_state |->
        [ks \in DOMAIN js.inventory_state |->
            [closing_stock |-> NumberOf(js.inventory_state[ks].closing_stock),
             units_on_order |-> NumberOf(js.inventory_state[ks].units_on_order),
             avg_daily_demand |->
                NumberOf(js.inventory_state[ks].avg_daily_demand)]],
     pending_shipments |->
        [i \in DOMAIN js.pending_shipments |->
            LoadedShipment(js.pending_shipments[i])],
     shipment_counter |-> NumberOf(js.shipment_counter),
     delivery_counter |-> NumberOf(js.delivery_counter),
     assignment_counter |-> NumberOf(js.assignment_counter),
     day_counter |-> NumberOf(js.day_counter)]

\* SimulationState.to_json
to_json(st) == JsonDumps(to_dict(st))

\* SimulationState.from_json
from_json(json_str) == from_dict(JsonLoads(json_str))

(* ---------------- properties ---------------- *)
\* the ledger has produced today's snapshot
LedgerDone == pc \in {"deliveries", "assignments", "save"}

\* the pipeline step of day d has been taken
PipelineRan(d) ==
    \/ current_date > d
    \/ current_date = d /\ pc \in {"inventory", "deliveries", "assignments", "save"}

\* the ledger step of day d has been taken
LedgerRan(d) == current_date > d \/ (current_date = d /\ LedgerDone)

CellOf(sh) == <<sh.warehouse_id, sh.product_id>>

\* the shipments of a sequence that belong to a cell
ShipmentsOf(shs, c) == SelectSeq(shs, LAMBDA sh : CellOf(sh) = c)

HasSupplier(c) == supplier_by_category(product_lookup(c[2]).category) # <<>>

NoDuplicates(seq) ==
    \A i, j \in DOMAIN seq : i # j => seq[i] # seq[j]

\* the positions of the arrival log that report a shipment
ArrivalsOf(sh) ==
    {i \in DOMAIN arrived_log : arrived_log[i].shipment_id = sh.shipment_id}

\* C1: in every ledger step, each cell's opening_stock is the closing_stock
\* stored for the cell by the previous day, closing_stock is
\* max(0, opening - sold + received + returned), that value is what is stored
\* for the next day, and no other step touches the stored stock.
C1_Conservation ==
    [][ /\ (pc = "inventory" /\ pc' = "deliveries") =>
              \A c \in Cells :
                 /\ c \in DOMAIN inventory_state =>
                       inventory_df'[c].opening_stock = inventory_state[c].closing_stock
                 /\ inventory_df'[c].closing_stock =
                       Max(0, inventory_df'[c].opening_stock
                              - inventory_df'[c].units_sold
                              + inventory_df'[c].units_received
                              + inventory_df'[c].units_returned)
                 /\ inventory_state'[c].closing_stock = inventory_df'[c].closing_stock
        /\ (pc # "inventory") => inventory_state' = inventory_state ]_vars

\* a ledger step on a later day with sales, a receipt and a return in one cell
C1_Witness ==
    /\ LedgerDone
    /\ current_date > BACKFILL_START_DATE
    /\ \E c \in Cells :
          /\ inventory_df[c].units_sold > 0
          /\ inventory_df[c].units_received > 0
          /\ inventory_df[c].units_returned > 0

\* C2: the pending queue never holds two shipments of the same cell.
C2_OneShipmentInFlight ==
    \A c \in Cells : Len(ShipmentsOf(pending_shipments, c)) <= 1

\* C3: the ledger never sets reorder_triggered for a cell while a shipment
\* for that cell is still pending in the queue.
C3_NoTriggerWhilePending ==
    LedgerDone =>
        \A c \in Cells :
            inventory_df[c].reorder_triggered_flag =>
                ShipmentsOf(pending_shipments, c) = <<>>

\* C4: at the end of every day each cell's units_on_order is the sum of the
\* quantities of the cell's shipments in the pending queue.
C4_OnOrderIsPendingSum ==
    pc = "save" =>
        \A c \in Cells :
            inventory_state[c].units_on_order
                = SumQty(ShipmentsOf(pending_shipments, c))

\* C5: closing_stock and units_on_order are never negative, in the stored
\* state and in the snapshot rows.
C5_NonNegative ==
    /\ \A c \in DOMAIN inventory_state :
          /\ inventory_state[c].closing_stock >= 0
          /\ inventory_state[c].units_on_order >= 0
    /\ LedgerDone =>
          \A c \in Cells :
             /\ inventory_df[c].closing_stock >= 0
             /\ inventory_df[c].units_on_order >= 0

\* a cell whose sales exceed everything it had: the clamp is what keeps it at 0
C5_Witness ==
    /\ LedgerDone
    /\ \E c \in Cells :
          inventory_df[c].opening_stock - inventory_df[c].units_sold
            + inventory_df[c].units_received + inventory_df[c].units_returned < 0

\* C6: a shipment is reported as arriving on no day but its
\* actual_arrival_date, at most once, and exactly once as soon as the pipeline
\* has run on that date.
C6_ArrivesOnceOnItsDate ==
    \A k \in DOMAIN fact_shipments :
        LET sh == fact_shipments[k]
        IN  /\ \A i \in ArrivalsOf(sh) : arrived_log[i].date = sh.actual_arrival_date
            /\ Cardinality(ArrivalsOf(sh)) <= 1
            /\ PipelineRan(sh.actual_arrival_date) => Cardinality(ArrivalsOf(sh)) = 1

\* a shipment that has arrived on a date other than its expected arrival date
C6_Witness ==
    \E k \in DOMAIN fact_shipments :
        /\ ArrivalsOf(fact_shipments[k]) # {}
        /\ fact_shipments[k].actual_arrival_date
              # fact_shipments[k].expected_arrival_date

\* the received units of a cell are the quantities of the shipments due today
ArrivalsCredited ==
    LedgerDone =>
        \A c \in Cells :
            /\ inventory_df[c].units_received =
                  SumQty(SelectSeq(ShipmentsOf(fact_shipments, c),
                         LAMBDA sh : sh.actual_arrival_date = current_date))
            /\ inventory_df[c].closing_stock =
                  Max(0, inventory_df[c].opening_stock - inventory_df[c].units_sold
                         + inventory_df[c].units_received
                         + inventory_df[c].units_returned)

\* C7: a reorder fired on day n for a cell whose category has a supplier is
\* followed by a shipment for the cell created on day n+1, which is reported
\* as arriving on its arrival date, and on that date its quantity is part of
\* the cell's units_received and of its closing_stock.
C7_ReorderArrives ==
    /\ \A t \in reorder_log :
          (HasSupplier(t[2]) /\ PipelineRan(t[1] + 1)) =>
             \E k \in DOMAIN fact_shipments :
                /\ CellOf(fact_shipments[k]) = t[2]
                /\ fact_shipments[k].shipment_date = t[1] + 1
                /\ PipelineRan(fact_shipments[k].actual_arrival_date) =>
                      \E i \in DOMAIN arrived_log :
                         /\ arrived_log[i].shipment_id = fact_shipments[k].shipment_id
                         /\ arrived_log[i].date = fact_shipments[k].actual_arrival_date
    /\ ArrivalsCredited

\* the shipment of a reorder arrives and the ledger of that day has run
C7_Witness ==
    /\ LedgerDone
    /\ \E t \in reorder_log : \E k \in DOMAIN fact_shipments :
          /\ CellOf(fact_shipments[k]) = t[2]
          /\ fact_shipments[k].shipment_date = t[1] + 1
          /\ fact_shipments[k].actual_arrival_date = current_date
          /\ inventory_df[t[2]].units_received >= fact_shipments[k].quantity
          /\ inventory_df[t[2]].closing_stock > inventory_df[t[2]].opening_stock

\* C8: every shipment arrives at least one day after its shipment date.
C8_ArrivalAfterShipment ==
    \A k \in DOMAIN fact_shipments :
        fact_shipments[k].actual_arrival_date >= fact_shipments[k].shipment_date + 1

\* a shipment that arrives the day after it was created although its supplier
\* missed its reliability roll
C8_Witness ==
    \E k \in DOMAIN fact_shipments :
        /\ fact_shipments[k].delay_flag
        /\ fact_shipments[k].actual_arrival_date
              <= fact_shipments[k].shipment_date + 2

\* the nominal lead time of the supplier of a shipment
NominalLead(sh) ==
    suppliers_df[CHOOSE i \in DOMAIN suppliers_df :
                    suppliers_df[i].supplier_id = sh.supplier_id].average_lead_time

\* C9 as stated: every shipment's actual_arrival_date is at or after its
\* expected_arrival_date.
C9_ActualNotBeforeExpected ==
    \A k \in DOMAIN fact_shipments :
        fact_shipments[k].actual_arrival_date
            >= fact_shipments[k].expected_arrival_date

\* C9 as amended: expected_arrival_date is shipment_date plus the supplier's
\* nominal lead time, and a shipment with delay_days > 0 arrives exactly
\* delay_days after its expected date; only a shipment with delay_days <= 0
\* can arrive before it.
C9_ActualVersusExpected ==
    \A k \in DOMAIN fact_shipments :
        LET sh == fact_shipments[k]
        IN  /\ sh.expected_arrival_date = sh.shipment_date + NominalLead(sh)
            /\ sh.delay_days > 0 =>
                  sh.actual_arrival_date = sh.expected_arrival_date + sh.delay_days
            /\ sh.actual_arrival_date < sh.expected_arrival_date =>
                  sh.delay_days <= 0

\* a late shipment and an early shipment exist
C9_Witness ==
    /\ \E k \in DOMAIN fact_shipments : fact_shipments[k].delay_days > 0
    /\ \E k \in DOMAIN fact_shipments :
          fact_shipments[k].actual_arrival_date
              < fact_shipments[k].expected_arrival_date

\* the ids of a table
ShipmentIds(shs) == [k \in DOMAIN shs |-> shs[k].shipment_id]

\* C10: no shipment, delivery or assignment id is issued twice in a run, and
\* each counter never decreases and moves only in the step that creates its
\* records, by the number of records created.
C10_UniqueIds ==
    /\ [](/\ NoDuplicates(ShipmentIds(fact_shipments))
          /\ NoDuplicates(delivery_ids)
          /\ NoDuplicates(assignment_ids))
    /\ [][ /\ shipment_counter' =
                shipment_counter + (Len(fact_shipments') - Len(fact_shipments))
           /\ delivery_counter' =
                delivery_counter + (Len(delivery_ids') - Len(delivery_ids))
           /\ assignment_counter' =
                assignment_counter + (Len(assignment_ids') - Len(assignment_ids))
           /\ Len(fact_shipments') >= Len(fact_shipments)
           /\ Len(delivery_ids') >= Len(delivery_ids)
           /\ Len(assignment_ids') >= Len(assignment_ids)
           /\ pc = "shipments" => Len(shipments_df') = Len(fact_shipments') - Len(fact_shipments)
           /\ pc = "deliveries" => Len(deliveries_df') = Len(delivery_ids') - Len(delivery_ids)
           /\ pc = "assignments" =>
                Len(assignments_df') = Len(assignment_ids') - Len(assignment_ids) ]_vars

\* a day on which two deliveries and two assignments are created
C10_Witness ==
    /\ Len(deliveries_df) >= 2
    /\ Len(assignments_df) >= 2

\* C11: in every ledger step and for every cell, reorder_triggered is true
\* exactly when the day's closing_stock is at or below the product's
\* reorder_point and the units_on_order carried into the day (the stored value,
\* before today's receipts are deducted) is 0.
C11_TriggerRule ==
    [][ (pc = "inventory" /\ pc' = "deliveries") =>
          \A c \in Cells :
             inventory_df'[c].reorder_triggered_flag <=>
                (/\ inventory_df'[c].closing_stock
                       <= product_lookup(c[2]).reorder_point
                 /\ PrevState(inventory_state, c).units_on_order = 0) ]_vars

\* a cell at or below its reorder point whose units on order drop to 0 by
\* today's receipt: the carried value was positive, so no reorder fires
C11_Witness ==
    /\ LedgerDone
    /\ \E c \in Cells :
          /\ inventory_df[c].closing_stock <= product_lookup(c[2]).reorder_point
          /\ inventory_df[c].units_received > 0
          /\ inventory_df[c].units_on_order = 0
          /\ ~inventory_df[c].reorder_triggered_flag

\* C12: in every ledger step, a cell that carries units_on_order > 0 into the
\* day does not trigger a reorder, and if it has no sales and no arrival that
\* day its closing_stock and units_on_order stay as they were.
C12_NoRetriggerWhileOnOrder ==
    [][ (pc = "inventory" /\ pc' = "deliveries") =>
          \A c \in Cells \cap DOMAIN inventory_state :
             inventory_state[c].units_on_order > 0 =>
                /\ ~inventory_df'[c].reorder_triggered_flag
                /\ (inventory_df'[c].units_sold = 0
                       /\ inventory_df'[c].units_received = 0) =>
                      /\ inventory_df'[c].closing_stock
                            = inventory_state[c].closing_stock
                      /\ inventory_state'[c].closing_stock
                            = inventory_state[c].closing_stock
                      /\ inventory_df'[c].units_on_order
                            = inventory_state[c].units_on_order
                      /\ inventory_state'[c].units_on_order
                            = inventory_state[c].units_on_order ]_vars

\* a quiet day for a cell that is at or below its reorder point with units on
\* order and a shipment still on its way
C12_Witness ==
    /\ LedgerDone
    /\ \E c \in Cells :
          /\ inventory_df[c].units_sold = 0
          /\ inventory_df[c].units_received = 0
          /\ inventory_df[c].units_on_order > 0
          /\ inventory_df[c].closing_stock <= product_lookup(c[2]).reorder_point
          /\ ~inventory_df[c].reorder_triggered_flag
          /\ ShipmentsOf(pending_shipments, c) # <<>>

DebitingStatuses == {"Delivered", "Shipped", "Processing"}

RECURSIVE DebitedQuantity(_, _)
\* total quantity on the first k item rows of the day that are for cell c's
\* product and belong to an order of c's warehouse with a debiting status
DebitedQuantity(k, c) ==
    IF k = 0 THEN 0
    ELSE DebitedQuantity(k - 1, c) +
         (IF /\ items_df[k].product_id = c[2]
             /\ \E i \in DOMAIN orders_df :
                   /\ orders_df[i].order_id = items_df[k].order_id
                   /\ orders_df[i].assigned_warehouse_id = c[1]
                   /\ orders_df[i].order_status \in DebitingStatuses
          THEN items_df[k].quantity ELSE 0)

\* C14: for every cell, the day's units_sold is the total quantity of the
\* product on the day's order items whose order is assigned to the warehouse
\* and is Delivered, Shipped or Processing; when every order of the warehouse
\* is Cancelled or Pending, nothing is debited.
C14_UnitsSold ==
    LedgerDone =>
        \A c \in Cells :
            /\ inventory_df[c].units_sold = DebitedQuantity(Len(items_df), c)
            /\ (\A i \in DOMAIN orders_df :
                    orders_df[i].assigned_warehouse_id = c[1] =>
                        orders_df[i].order_status \in {"Cancelled", "Pending"})
                  => /\ inventory_df[c].units_sold = 0
                     /\ inventory_df[c].closing_stock >= inventory_df[c].opening_stock

\* a day with a Pending order and a debiting order for the same cell
C14_Witness ==
    /\ LedgerDone
    /\ \E c \in Cells : \E i, j \in DOMAIN orders_df :
          /\ orders_df[i].assigned_warehouse_id = c[1]
          /\ orders_df[j].assigned_warehouse_id = c[1]
          /\ orders_df[i].order_status = "Pending"
          /\ orders_df[j].order_status \in DebitingStatuses
          /\ \E k \in DOMAIN items_df :
                items_df[k].order_id = orders_df[i].order_id /\ items_df[k].product_id = c[2]
          /\ inventory_df[c].units_sold > 0

\* the step of the loop body that follows a step
NextStep(p) ==
    CASE p = "orders" -> "shipments"
      [] p = "shipments" -> "inventory"
      [] p = "inventory" -> "deliveries"
      [] p = "deliveries" -> "assignments"
      [] p = "assignments" -> "save"
      [] OTHER -> "orders"

\* the carried state of the run
CarriedState ==
    << inventory_state, pending_shipments, shipment_counter, delivery_counter,
       assignment_counter >>

\* C16: the n-th day step works on the n-th date of the calendar, so the
\* dates from the start date to the end date are processed once each in
\* increasing order; the steps of a day run in their order; between two days
\* the carried state is left as the day stored it; and the run terminates, with
\* current_date the day after the end date, after (end - start + 1) day steps.
C16_EveryDayOnce ==
    /\ [](/\ pc \in {"orders", "done"} =>
                current_date = BACKFILL_START_DATE + day_num
          /\ pc \notin {"orders", "done"} =>
                /\ current_date = BACKFILL_START_DATE + day_num - 1
                /\ current_date <= BACKFILL_END_DATE
          /\ pc = "orders" => current_date <= BACKFILL_END_DATE
          /\ day_counter = day_num
          /\ pc = "done" =>
                /\ current_date = BACKFILL_END_DATE + 1
                /\ day_num = BACKFILL_END_DATE - BACKFILL_START_DATE + 1)
    /\ [][ /\ pc # "done"
           /\ pc' = (IF pc = "save" /\ current_date = BACKFILL_END_DATE
                     THEN "done" ELSE NextStep(pc))
           /\ current_date' = (IF pc = "save" THEN current_date + 1 ELSE current_date)
           /\ day_num' = (IF pc = "orders" THEN day_num + 1 ELSE day_num)
           /\ pc = "save" => CarriedState' = CarriedState ]_vars
    /\ <>(pc = "done")

\* a run over more than two days has ended
C16_Witness ==
    /\ pc = "done"
    /\ day_num >= 3
    /\ current_date = BACKFILL_END_DATE + 1

\* the state of a fresh run before its first day step
FreshRunStart == day_num = 0 /\ run.lost_cells = {}

\* every cell holds a stock drawn from the initial range with nothing on order
\* and the shipment queue is empty
FreshInventory ==
    /\ DOMAIN inventory_state = Cells
    /\ \A c \in Cells :
          /\ inventory_state[c].closing_stock \in InitialStocks
          /\ inventory_state[c].units_on_order = 0
    /\ pending_shipments = <<>>

\* C17 as stated: in the initial state of a fresh run every cell holds a
\* randomized initial stock with units_on_order = 0, the pending queue is
\* empty, and the shipment, delivery, assignment and day counters all equal 1.
C17_FreshStateAllCountersOne ==
    FreshRunStart =>
        /\ FreshInventory
        /\ shipment_counter = 1
        /\ delivery_counter = 1
        /\ assignment_counter = 1
        /\ day_counter = 1

\* C17 as amended: as above, but the day counter is 0 in the initial state; it
\* is 1 from the first day step on.
C17_FreshState ==
    /\ FreshRunStart =>
          /\ FreshInventory
          /\ shipment_counter = 1
          /\ delivery_counter = 1
          /\ assignment_counter = 1
          /\ day_counter = 0
    /\ day_num = 1 => day_counter = 1

\* the initial state of a fresh run with several cells
C17_Witness ==
    /\ FreshRunStart
    /\ pc = "orders"
    /\ Cardinality(DOMAIN inventory_state) >= 2

\* no row of dim_supplier lists the category of the cell's product
Unserved(c) ==
    \A i \in DOMAIN suppliers_df :
        product_lookup(c[2]).category \notin Range(suppliers_df[i].product_categories)

\* the cells of the state that qualify for a shipment and have a supplier
ServedQualifyingCells ==
    {c \in DOMAIN inventory_state : ReorderGate(inventory_state, c) /\ ~Unserved(c)}

\* C18: the pipeline step never fails; after it, a qualifying cell whose
\* category no supplier serves has no shipment among the day's new shipments
\* and never has one in the queue or in fact_shipments, while every other
\* qualifying cell has got its shipment; the step advances the shipment counter
\* and grows the queue by the number of qualifying cells that have a supplier.
C18_SkipsUnservedCells ==
    /\ [](/\ pc = "shipments" => ENABLED GenerateDailyShipments
          /\ \A c \in Cells :
                Unserved(c) =>
                   /\ ShipmentsOf(pending_shipments, c) = <<>>
                   /\ ShipmentsOf(fact_shipments, c) = <<>>
          /\ pc = "inventory" =>
                \A c \in DOMAIN inventory_state :
                   ReorderGate(inventory_state, c) =>
                      Len(ShipmentsOf(shipments_df, c)) = (IF Unserved(c) THEN 0 ELSE 1))
    /\ [][ pc = "shipments" =>
             /\ shipment_counter' =
                   shipment_counter + Cardinality(ServedQualifyingCells)
             /\ Len(pending_shipments') + Len(arriving_df') =
                   Len(pending_shipments) + Cardinality(ServedQualifyingCells) ]_vars

\* the pipeline has run on a day on which a cell without a supplier and a
\* cell with a supplier both qualify
C18_Witness ==
    /\ pc = "inventory"
    /\ \E c, o \in DOMAIN inventory_state :
          /\ ReorderGate(inventory_state, c) /\ Unserved(c)
          /\ ReorderGate(inventory_state, o) /\ ~Unserved(o)
          /\ ShipmentsOf(shipments_df, c) = <<>>
          /\ ShipmentsOf(shipments_df, o) # <<>>

\* C19: the ledger step never fails; for a cell that has no entry in the
\* inventory state it works from opening_stock = 100, units_on_order = 0 and
\* avg_daily_demand = 0 (so a reorder depends on the closing stock alone, the
\* units on order are those of that reorder, and the demand average is positive
\* only if something was sold), and afterwards the cell has an entry that holds
\* the values of its snapshot row.
C19_MissingCellDefaults ==
    /\ [](pc = "inventory" => ENABLED GenerateDailyInventorySnapshot)
    /\ [][ (pc = "inventory" /\ pc' = "deliveries") =>
             \A c \in Cells \ DOMAIN inventory_state :
                LET row == inventory_df'[c]
                IN  /\ row.opening_stock = 100
                    /\ row.closing_stock =
                          Max(0, 100 - row.units_sold + row.units_received
                                 + row.units_returned)
                    /\ row.reorder_triggered_flag <=>
                          row.closing_stock <= product_lookup(c[2]).reorder_point
                    /\ row.units_on_order \in
                          (IF row.reorder_triggered_flag
                           THEN ReorderQuantities ELSE {0})
                    /\ c \in DOMAIN inventory_state'
                    /\ inventory_state'[c] =
                          [closing_stock |-> row.closing_stock,
                           units_on_order |-> row.units_on_order,
                           avg_daily_demand |->
                              (IF row.units_sold > 0 THEN 1 ELSE 0)] ]_vars

\* the ledger has processed a cell that had no entry and that sold something
C19_Witness ==
    /\ LedgerDone
    /\ current_date = BACKFILL_START_DATE
    /\ \E c \in run.lost_cells :
          /\ c \in DOMAIN inventory_state
          /\ inventory_df[c].opening_stock = 100
          /\ inventory_df[c].units_sold > 0
          /\ inventory_state[c].closing_stock < 100

\* the delivery generator has run today
DeliveriesDone == pc \in {"assignments", "save"}

\* the rows of today's deliveries table that are for an order
DeliveriesFor(o) ==
    {k \in DOMAIN deliveries_df : deliveries_df[k].order_id = o.order_id}

\* today's orders that are not Cancelled
NotCancelled == {i \in DOMAIN orders_df : orders_df[i].order_status # "Cancelled"}

\* C20: the day's deliveries table holds exactly one delivery for every order
\* that is not Cancelled (Pending ones included), none for a Cancelled order
\* and nothing else, and the delivery step advances the delivery counter by
\* the number of orders that are not Cancelled.
C20_OneDeliveryPerActiveOrder ==
    /\ [](DeliveriesDone =>
            /\ \A i \in DOMAIN orders_df :
                  Cardinality(DeliveriesFor(orders_df[i])) =
                     (IF orders_df[i].order_status = "Cancelled" THEN 0 ELSE 1)
            /\ \A k \in DOMAIN deliveries_df :
                  \E i \in NotCancelled :
                     /\ deliveries_df[k].order_id = orders_df[i].order_id
                     /\ deliveries_df[k].warehouse_id =
                           orders_df[i].assigned_warehouse_id
            /\ Len(deliveries_df) = Cardinality(NotCancelled))
    /\ [][ pc = "deliveries" =>
             delivery_counter' = delivery_counter + Cardinality(NotCancelled) ]_vars

\* a day with a Pending order, which gets a delivery, and a Cancelled order
C20_Witness ==
    /\ DeliveriesDone
    /\ \E i, j \in DOMAIN orders_df :
          /\ orders_df[i].order_status = "Pending"
          /\ orders_df[j].order_status = "Cancelled"
          /\ DeliveriesFor(orders_df[i]) # {}
          /\ DeliveriesFor(orders_df[j]) = {}

\* the points at which the run can be interrupted and its state persisted
BetweenDays == pc \in {"orders", "done"}

\* C15: for the state s that a run has reached between two days,
\* from_dict(to_dict(s)) and from_json(to_json(s)) are the state s again: the
\* same inventory map under the same tuple keys, the same pending shipments in
\* the same order with their dates and timestamps as date and datetime
\* objects, and the same four counters.
C15_CheckpointLossless ==
    BetweenDays =>
        LET s == StateObject
        IN  /\ from_dict(to_dict(s)) = s
            /\ from_json(to_json(s)) = s

\* a state with entries on order, two pending shipments of which one has a
\* negative delay_days, and advanced counters
C15_Witness ==
    /\ BetweenDays
    /\ Len(pending_shipments) >= 2
    /\ \E i \in DOMAIN pending_shipments : pending_shipments[i].delay_days < 0
    /\ \E c \in DOMAIN inventory_state :
          /\ inventory_state[c].units_on_order > 0
          /\ inventory_state[c].avg_daily_demand > 0
    /\ delivery_counter > 1
    /\ day_counter > 1

\* the rows of dim_experiments with the given experiment_id
ExperimentRows(id) ==
    SelectSeq(experiments_df, LAMBDA e : e.experiment_id = id)

\* C21: an order carries an experiment_id only if that experiment has started
\* on or before the order date, has no end date or one on or after the order
\* date, and lists the order's assigned warehouse among its target warehouses;
\* experiment_group is Control or Treatment when experiment_id is set and is
\* unset when it is not.
C21_ExperimentEnrolment ==
    \A i \in DOMAIN orders_df :
        LET o == orders_df[i]
        IN  /\ o.experiment_id # None =>
                  /\ Len(ExperimentRows(o.experiment_id)) = 1
                  /\ LET e == ExperimentRows(o.experiment_id)[1]
                     IN  /\ e.start_date <= o.order_date
                         /\ e.end_date = NaT \/ e.end_date >= o.order_date
                         /\ o.assigned_warehouse_id \in Range(e.target_warehouses)
            /\ o.experiment_id # None <=>
                  o.experiment_group \in {"Control", "Treatment"}
            /\ o.experiment_id = None <=> o.experiment_group = None

\* an order enrolled in the experiment without an end date, on a day on which
\* the other experiment has ended
C21_Witness ==
    \E i \in DOMAIN orders_df :
        /\ orders_df[i].experiment_id # None
        /\ orders_df[i].experiment_group = "Treatment"
        /\ ExperimentRows(orders_df[i].experiment_id)[1].end_date = NaT
        /\ \E k \in DOMAIN experiments_df :
              experiments_df[k].end_date # NaT
                 /\ experiments_df[k].end_date < orders_df[i].order_date

\* C22: an order has return_flag = TRUE only if its status is Delivered; an
\* order with any other status has return_flag = FALSE.
C22_ReturnOnlyIfDelivered ==
    \A i \in DOMAIN orders_df :
        /\ orders_df[i].return_flag \in BOOLEAN
        /\ orders_df[i].return_flag = TRUE => orders_df[i].order_status = "Delivered"
        /\ orders_df[i].order_status # "Delivered" => orders_df[i].return_flag = FALSE

\* a day with a returned Delivered order, a Delivered order that is not
\* returned or a Shipped order beside it
C22_Witness ==
    \E i, j \in DOMAIN orders_df :
        /\ orders_df[i].order_status = "Delivered"
        /\ orders_df[i].return_flag = TRUE
        /\ orders_df[j].order_status \in {"Delivered", "Shipped"}
        /\ orders_df[j].return_flag = FALSE

\* the days on which the ledger fired a reorder for a cell
TriggerDays(c) == {t[1] : t \in {u \in reorder_log : u[2] = c}}

\* C23: every shipment was created the day after the ledger fired a reorder
\* for its cell, and no cell has more shipments than reorders fired for it.
C23_ShipmentOnlyAfterTrigger ==
    /\ \A k \in DOMAIN fact_shipments :
          (fact_shipments[k].shipment_date - 1)
              \in TriggerDays(CellOf(fact_shipments[k]))
    /\ \A c \in Cells :
          Len(ShipmentsOf(fact_shipments, c)) <= Cardinality(TriggerDays(c))

\* the shipments of a cell that were created on day d
ShipmentsOn(c, d) ==
    SelectSeq(ShipmentsOf(fact_shipments, c), LAMBDA sh : sh.shipment_date = d)

\* C24: when the ledger fires a reorder for a cell on day n and a supplier
\* serves the product's category, the pipeline has created no shipment for the
\* cell on day n, and the pipeline step of day n+1 creates exactly one shipment
\* for the cell, dated n+1.
C24_OneDayLag ==
    /\ [](\A t \in reorder_log :
             HasSupplier(t[2]) =>
                /\ ShipmentsOn(t[2], t[1]) = <<>>
                /\ PipelineRan(t[1] + 1) => Len(ShipmentsOn(t[2], t[1] + 1)) = 1)
    /\ [][ /\ (pc = "inventory" /\ pc' = "deliveries") =>
                \A t \in reorder_log' \ reorder_log :
                    /\ t[1] = current_date
                    /\ ShipmentsOf(shipments_df, t[2]) = <<>>
           /\ (pc = "shipments" /\ pc' = "inventory") =>
                \A c \in Cells :
                    (<<current_date - 1, c>> \in reorder_log /\ HasSupplier(c)) =>
                        /\ Len(ShipmentsOf(shipments_df', c)) = 1
                        /\ ShipmentsOf(shipments_df', c)[1].shipment_date
                              = current_date ]_vars

\* the pipeline has just created the shipment of a reorder that the ledger
\* fired the day before, on a day later than the first
C24_Witness ==
    /\ pc = "inventory"
    /\ current_date > BACKFILL_START_DATE + 1
    /\ \E c \in Cells :
          /\ <<current_date - 1, c>> \in reorder_log
          /\ ShipmentsOn(c, current_date - 1) = <<>>
          /\ Len(ShipmentsOf(shipments_df, c)) = 1

\* C25: in every ledger step and for every cell, the new units_on_order is the
\* value carried into the day minus the units received today, floored at 0,
\* plus a reorder quantity drawn from the reorder range if reorder_triggered
\* fired today and plus nothing if it did not; with no receipt and no trigger
\* it is the carried value; the stored state holds the value of the row.
C25_UnitsOnOrderUpdate ==
    [][ (pc = "inventory" /\ pc' = "deliveries") =>
          \A c \in Cells :
             LET row == inventory_df'[c]
                 carried == PrevState(inventory_state, c).units_on_order
                 afterReceipt == Max(0, carried - row.units_received)
             IN  /\ row.reorder_triggered_flag =>
                       (row.units_on_order - afterReceipt) \in ReorderQuantities
                 /\ ~row.reorder_triggered_flag =>
                       row.units_on_order = afterReceipt
                 /\ (row.units_received = 0 /\ ~row.reorder_triggered_flag) =>
                       row.units_on_order = carried
                 /\ inventory_state'[c].units_on_order = row.units_on_order ]_vars

\* a cell that receives more than it had on order and fires a reorder on the
\* same day: the floor and the drawn quantity both act
C25_Witness ==
    /\ LedgerDone
    /\ \E c \in Cells :
          /\ inventory_df[c].units_received > 0
          /\ inventory_df[c].reorder_triggered_flag
          /\ inventory_df[c].units_on_order \in ReorderQuantities
          /\ inventory_state[c].units_on_order = inventory_df[c].units_on_order

\* the last day whose pipeline step has been taken (0 before the first)
LastPipelineDay ==
    IF pc \in {"orders", "shipments", "done"} THEN current_date - 1 ELSE current_date

\* C26: once the pipeline step of a day has been taken, the pending queue is
\* exactly the shipments created so far whose actual_arrival_date is later
\* than that day, in creation order; a shipment leaves the queue only in a
\* pipeline step, on its actual_arrival_date, and is then among the shipments
\* reported as arriving.
C26_QueueHoldsTheUnarrived ==
    /\ [](pending_shipments =
             SelectSeq(fact_shipments,
                       LAMBDA sh : sh.actual_arrival_date > LastPipelineDay))
    /\ [][ \A sh \in Range(pending_shipments) \ Range(pending_shipments') :
              /\ pc = "shipments"
              /\ sh.actual_arrival_date = current_date
              /\ sh \in Range(arriving_df')
              /\ [date |-> current_date, shipment_id |-> sh.shipment_id]
                    \in Range(arrived_log') ]_vars

\* the pipeline has just run: one shipment leaves the queue as arriving while
\* an older one and a new one stay in it
C26_Witness ==
    /\ pc = "inventory"
    /\ arriving_df # <<>>
    /\ \E i, j \in DOMAIN pending_shipments :
          /\ pending_shipments[i].shipment_date < current_date
          /\ pending_shipments[j].shipment_date = current_date

\* C27: in every snapshot row units_returned <= units_sold, and a cell that
\* receives nothing on a day closes the day with no more stock than it opened
\* with.
C27_ReturnsWithinSales ==
    LedgerDone =>
        \A c \in Cells :
            /\ inventory_df[c].units_returned <= inventory_df[c].units_sold
            /\ inventory_df[c].units_received = 0 =>
                  inventory_df[c].closing_stock <= inventory_df[c].opening_stock

\* a cell with two sales of which one is returned, and no receipt: the stock
\* goes down by the sale that is not returned
C27_Witness ==
    /\ LedgerDone
    /\ \E c \in Cells :
          /\ inventory_df[c].units_returned > 0
          /\ inventory_df[c].units_sold > inventory_df[c].units_returned
          /\ inventory_df[c].units_received = 0
          /\ inventory_df[c].closing_stock < inventory_df[c].opening_stock

\* C28: for every shipment, delay_days >= 0, delay_days is the number of days
\* by which actual_arrival_date exceeds expected_arrival_date (0 when it does
\* not), and delay_flag is true exactly when delay_days > 0.
C28_DelayDaysConsistent ==
    \A k \in DOMAIN fact_shipments :
        LET sh == fact_shipments[k]
        IN  /\ sh.delay_days >= 0
            /\ sh.delay_days =
                  Max(0, sh.actual_arrival_date - sh.expected_arrival_date)
            /\ sh.delay_flag <=> sh.delay_days > 0

\* C29: the pipeline step leaves the inventory state as it is (every cell's
\* closing_stock, units_on_order and avg_daily_demand, also of the cells it
\* creates a shipment for); the ledger step leaves the pending queue and the
\* shipment, delivery and assignment counters as they are.
C29_FrameOfPipelineAndLedger ==
    [][ /\ pc = "shipments" => inventory_state' = inventory_state
        /\ pc = "inventory" =>
              /\ pending_shipments' = pending_shipments
              /\ shipment_counter' = shipment_counter
              /\ delivery_counter' = delivery_counter
              /\ assignment_counter' = assignment_counter ]_vars

\* a day on which the pipeline created a shipment for a cell with units on
\* order and the ledger then credited an arrival, with the queue not empty
C29_Witness ==
    /\ pc = "deliveries"
    /\ pending_shipments # <<>>
    /\ \E k \in DOMAIN shipments_df :
          /\ inventory_df[CellOf(shipments_df[k])].units_received > 0
          /\ shipments_df[k] \in Range(pending_shipments)
    /\ shipment_counter > 1

\* the cells whose category no supplier serves and for which a reorder has fired
StrandedCells == {c \in Cells : Unserved(c) /\ TriggerDays(c) # {}}

\* C30: for a cell whose product category has no supplier the ledger fires a
\* reorder on at most one day of the run; no shipment is ever created for the
\* cell; and once the reorder has fired, every step leaves the cell's
\* units_on_order at the quantity drawn for it, every later snapshot row shows
\* that quantity, and reorder_triggered is false in every later row.
C30_UnservedCellTriggersOnce ==
    /\ [](\A c \in Cells :
             Unserved(c) =>
                /\ Cardinality(TriggerDays(c)) <= 1
                /\ ShipmentsOf(fact_shipments, c) = <<>>
                /\ ShipmentsOf(pending_shipments, c) = <<>>
                /\ TriggerDays(c) # {} =>
                      inventory_state[c].units_on_order \in ReorderQuantities)
    /\ [][ \A c \in StrandedCells :
              /\ inventory_state'[c].units_on_order
                    = inventory_state[c].units_on_order
              /\ (pc = "inventory" /\ pc' = "deliveries") =>
                    /\ ~inventory_df'[c].reorder_triggered_flag
                    /\ inventory_df'[c].units_on_order
                          = inventory_state[c].units_on_order ]_vars

\* two days after its reorder fired, a cell without a supplier is still at or
\* below its reorder point with the same units on order and no new trigger
C30_Witness ==
    /\ LedgerDone
    /\ \E c \in StrandedCells :
          /\ \A d \in TriggerDays(c) : current_date >= d + 2
          /\ inventory_df[c].closing_stock <= product_lookup(c[2]).reorder_point
          /\ ~inventory_df[c].reorder_triggered_flag
          /\ inventory_df[c].units_on_order > 0
          /\ ShipmentsOf(fact_shipments, c) = <<>>
          /\ fact_shipments # <<>>

====
